---------------------------- MODULE Spec2Model ----------------------------
(***************************************************************************)
(* Model of the JamesTrade core: the file-backed profile store             *)
(* (src/db_json.py) and the authentication-health monitor, run_once, with  *)
(* the exchange client it drives (src/trading_core.py).                    *)
(*                                                                         *)
(* Python dicts are functions with a domain of strings (records whose set  *)
(* of fields varies), so that "key in d", d.get(k, default) and            *)
(* d.setdefault(k, v) are modelled by what they do.  Text (retMsg) is a    *)
(* sequence of one-character strings, so that lower() and the substring    *)
(* test "marker in text" are computed, not assumed.                        *)
(***************************************************************************)
EXTENDS Integers, Sequences, FiniteSets, TLC

(***************************************************************************)
(* Bounds of the model.                                                    *)
(***************************************************************************)
MaxCycles == 3
MaxClock == 2
MaxOps == 2
MaxAppends == 3
MaxLedger == 3
MaxLimit == 3
MaxRows == 3
MaxRounds == 5
MixCycles == 1

(***************************************************************************)
(* Python helpers.                                                         *)
(***************************************************************************)
EmptyDict == <<>>

Get(d, k, default) == IF k \in DOMAIN d THEN d[k] ELSE default

SetKey(d, k, v) == (k :> v) @@ d

SetDefault(d, k, v) == IF k \in DOMAIN d THEN d ELSE SetKey(d, k, v)

\* JSON null for sub_until (timestamps are integers >= 0)
NoneVal == -1

\* a settings value that is not a dict (a JSON list, number, string or null)
NotADict == [notdict |-> TRUE]

IsDict(x) == "notdict" \notin DOMAIN x

(***************************************************************************)
(* Text.                                                                   *)
(***************************************************************************)
UpperCase == <<"A", "B", "C", "D", "E", "F", "G", "H", "I", "J", "K", "L", "M", "N", "O", "P", "Q", "R", "S", "T", "U", "V", "W", "X", "Y", "Z">>
LowerCase == <<"a", "b", "c", "d", "e", "f", "g", "h", "i", "j", "k", "l", "m", "n", "o", "p", "q", "r", "s", "t", "u", "v", "w", "x", "y", "z">>
DigitChars == <<"0", "1", "2", "3", "4", "5", "6", "7", "8", "9">>

LowerChar(c) ==
    IF \E i \in 1..Len(UpperCase) : UpperCase[i] = c
    THEN LowerCase[CHOOSE i \in 1..Len(UpperCase) : UpperCase[i] = c]
    ELSE c

\* str.lower()
Lower(s) == [i \in 1..Len(s) |-> LowerChar(s[i])]

\* "sub in s"
Contains(sub, s) ==
    \E i \in 0..(Len(s) - Len(sub)) : SubSeq(s, i + 1, i + Len(sub)) = sub

RECURSIVE Digits(_)
Digits(n) == IF n < 10 THEN <<DigitChars[n + 1]>>
             ELSE Digits(n \div 10) \o <<DigitChars[(n % 10) + 1]>>

\* str(n) of an integer
Str(n) == IF n < 0 THEN <<"-">> \o Digits(-n) ELSE Digits(n)

\* str(e) of the requests library's ReadTimeout and ConnectionError
MsgTimeout ==
    <<"H", "T", "T", "P", "S", "C", "o", "n", "n", "e", "c", "t", "i", "o", "n", "P", "o", "o", "l", "(", "h", "o", "s", "t", "=", "'", "a", "p", "i", "-", "t", "e", "s", "t", "n", "e", "t", ".", "b", "y", "b", "i", "t", ".", "c", "o", "m", "'", ",", " ", "p", "o", "r", "t", "=", "4", "4", "3", ")", ":", " ", "R", "e", "a", "d", " ", "t", "i", "m", "e", "d", " ", "o", "u", "t", ".", " ", "(", "r", "e", "a", "d", " ", "t", "i", "m", "e", "o", "u", "t", "=", "1", "0", ")">>
MsgConnRefused ==
    <<"H", "T", "T", "P", "S", "C", "o", "n", "n", "e", "c", "t", "i", "o", "n", "P", "o", "o", "l", "(", "h", "o", "s", "t", "=", "'", "a", "p", "i", "-", "t", "e", "s", "t", "n", "e", "t", ".", "b", "y", "b", "i", "t", ".", "c", "o", "m", "'", ",", " ", "p", "o", "r", "t", "=", "4", "4", "3", ")", ":", " ", "M", "a", "x", " ", "r", "e", "t", "r", "i", "e", "s", " ", "e", "x", "c", "e", "e", "d", "e", "d", " ", "w", "i", "t", "h", " ", "u", "r", "l", ":", " ", "/", "v", "5", "/", "a", "c", "c", "o", "u", "n", "t", "/", "w", "a", "l", "l", "e", "t", "-", "b", "a", "l", "a", "n", "c", "e", "?", "c", "o", "i", "n", "=", "U", "S", "D", "T", " ", "(", "C", "a", "u", "s", "e", "d", " ", "b", "y", " ", "N", "e", "w", "C", "o", "n", "n", "e", "c", "t", "i", "o", "n", "E", "r", "r", "o", "r", ":", " ", "F", "a", "i", "l", "e", "d", " ", "t", "o", " ", "e", "s", "t", "a", "b", "l", "i", "s", "h", " ", "a", " ", "n", "e", "w", " ", "c", "o", "n", "n", "e", "c", "t", "i", "o", "n", ":", " ", "[", "E", "r", "r", "n", "o", " ", "1", "1", "1", "]", " ", "C", "o", "n", "n", "e", "c", "t", "i", "o", "n", " ", "r", "e", "f", "u", "s", "e", "d", ")">>
MsgUnauthorized == <<"U", "n", "a", "u", "t", "h", "o", "r", "i", "z", "e", "d">>
MsgInvalidApiKey == <<"I", "n", "v", "a", "l", "i", "d", " ", "A", "P", "I", " ", "k", "e", "y">>
MsgKeyInvalid == <<"A", "P", "I", " ", "k", "e", "y", " ", "i", "s", " ", "i", "n", "v", "a", "l", "i", "d">>
MsgOK == <<"O", "K">>
MsgException == <<"e", "x", "c", "e", "p", "t", "i", "o", "n">>
MsgHttp == <<"H", "T", "T", "P", " ">>
MsgEmpty == <<>>

MarkUnauthor == <<"u", "n", "a", "u", "t", "h", "o", "r">>
MarkInvalidApi == <<"i", "n", "v", "a", "l", "i", "d", " ", "a", "p", "i">>
MarkInvalidApikey == <<"i", "n", "v", "a", "l", "i", "d", " ", "a", "p", "i", "k", "e", "y">>
Rc401 == <<"4", "0", "1">>

(***************************************************************************)
(* User ids.  The profiles document is keyed by str(uid).                  *)
(***************************************************************************)
Uids == {1, 2}

StrOfUid(uid) == CASE uid = 1 -> "1" [] uid = 2 -> "2"

IntOfKey(k) == CASE k = "1" -> 1 [] k = "2" -> 2

UserKeys == {StrOfUid(uid) : uid \in Uids}

(***************************************************************************)
(* db_json._ensure_user_defaults.  Fractions are held in hundredths        *)
(* (0.66 is 66, 5.0 is 500).                                               *)
(***************************************************************************)
defaults ==
    [USE_RSI |-> TRUE, RSI_PERIOD |-> 14, RSI_OVERSOLD |-> 40, RSI_OVERBOUGHT |-> 60,
     USE_EMA |-> TRUE, FAST_MA |-> 50, SLOW_MA |-> 200,
     USE_MACD |-> TRUE, MACD_FAST |-> 8, MACD_SLOW |-> 21, MACD_SIGNAL |-> 5,
     USE_OI |-> FALSE, OI_WINDOW |-> 3, OI_MIN_CHANGE_PCT |-> 500, OI_DIRECTION |-> "up",
     BUY_CONFIRMATION_RATIO |-> 66, SELL_CONFIRMATION_RATIO |-> 33,
     ORDER_PERCENT |-> 1000, ORDER_SIZE_USD |-> 0,
     TP_PCT |-> 100, SL_PCT |-> 50,
     QTY_PRECISION |-> 6,
     MIN_NOTIONAL |-> 500,
     SYMBOLS |-> <<"BTCUSDT">>,
     TESTNET |-> TRUE,
     DRY_RUN |-> TRUE,
     DISABLED_AUTH |-> FALSE]

\* username or f"user_{uid}": username is "" when the caller gives none
DefaultUsername(key, username) ==
    IF username # "" THEN <<"name", username>> ELSE <<"user_", key>>

\* mutant: the loop over the default table left after the first key it adds
FillSettings_first(s) ==
    IF DOMAIN defaults \subseteq DOMAIN s THEN s
    ELSE LET k == CHOOSE k \in DOMAIN defaults : k \notin DOMAIN s
         IN  SetKey(s, k, defaults[k])

\* mutant: the table assigned over the stored options (update, not setdefault)
FillSettings_overwrite(s) == defaults @@ s

\* for k, v in defaults.items(): s.setdefault(k, v)
FillSettings(s) == s @@ defaults

ensure_profile(p, key, username) ==
    LET u1 == SetDefault(p, "username", DefaultUsername(key, username))
        u2 == SetDefault(u1, "api_key", "")
        u3 == SetDefault(u2, "api_secret", "")
        u4 == SetDefault(u3, "sub_until", NoneVal)
        s0 == IF "settings" \notin DOMAIN u4 \/ ~IsDict(u4["settings"])
              THEN EmptyDict ELSE u4["settings"]
        u5 == SetKey(u4, "settings", FillSettings(s0))
    IN  SetDefault(u5, "_positions", EmptyDict)

ensure_user_defaults(users, key, username) ==
    LET p == IF key \in DOMAIN users THEN users[key] ELSE EmptyDict
    IN  SetKey(users, key, ensure_profile(p, key, username))

(***************************************************************************)
(* Decoded JSON values of the exchange's responses, tagged by Python type. *)
(***************************************************************************)
JNum(n) == [t |-> "num", n |-> n]
JStr(s) == [t |-> "str", s |-> s]
JDict(f) == [t |-> "dict", d |-> f]
JList(q) == [t |-> "list", q |-> q]
JNull == [t |-> "null"]

\* bool(x)
Truthy(x) ==
    CASE x.t = "num" -> x.n # 0
      [] x.t = "str" -> Len(x.s) # 0
      [] x.t = "dict" -> DOMAIN x.d # {}
      [] x.t = "list" -> Len(x.q) # 0
      [] OTHER -> FALSE

\* a or b
Or(a, b) == IF Truthy(a) THEN a ELSE b

\* str(x); the text of a container is not a message the classifier looks for
PyStr(x) ==
    CASE x.t = "num" -> Str(x.n)
      [] x.t = "str" -> x.s
      [] x.t = "null" -> <<"N", "o", "n", "e">>
      [] x.t = "dict" -> <<"{", "}">>
      [] OTHER -> <<"[", "]">>

IsDigitChar(c) == \E i \in 1..Len(DigitChars) : DigitChars[i] = c

DigitValue(c) == (CHOOSE i \in 1..Len(DigitChars) : DigitChars[i] = c) - 1

RECURSIVE ParseDigits(_)
ParseDigits(s) == IF Len(s) = 0 THEN 0
                  ELSE 10 * ParseDigits(SubSeq(s, 1, Len(s) - 1)) + DigitValue(s[Len(s)])

\* float(x) raises for anything but a number or a numeric string
FloatRaises(x) ==
    CASE x.t = "num" -> FALSE
      [] x.t = "str" -> Len(x.s) = 0 \/ \E i \in 1..Len(x.s) : ~IsDigitChar(x.s[i])
      [] OTHER -> TRUE

Float(x) == IF x.t = "num" THEN x.n ELSE ParseDigits(x.s)

UsdtChars == <<"U", "S", "D", "T">>

(***************************************************************************)
(* BybitClient.  A wire outcome is what the HTTP layer gives one request:  *)
(* an exception (timeout, connection error), or a response with a status   *)
(* and a body that decodes as JSON (body) or does not (text).              *)
(***************************************************************************)
Envelope(code, msg) == JDict([retCode |-> JNum(code), retMsg |-> JStr(msg)])

WireExc(msg) ==
    [exc |-> TRUE, excMsg |-> msg, status |-> 0, isJson |-> FALSE, text |-> MsgEmpty, body |-> JNull]

WireText(status, text) ==
    [exc |-> FALSE, excMsg |-> MsgEmpty, status |-> status, isJson |-> FALSE, text |-> text, body |-> JNull]

WireJson(status, body) ==
    [exc |-> FALSE, excMsg |-> MsgEmpty, status |-> status, isJson |-> TRUE, text |-> MsgEmpty, body |-> body]

Listing(equity) ==
    JDict([result |-> JDict([list |-> JList(<<JDict([coin |-> JStr(UsdtChars), equity |-> equity])>>)])])

WireOutcomes ==
    { WireExc(MsgTimeout),
      WireExc(MsgConnRefused),
      WireJson(200, JDict([retCode |-> JNum(0), retMsg |-> JStr(MsgOK),
                           result |-> JDict([list |-> JList(<<>>)])])),
      WireText(401, MsgUnauthorized),
      WireText(500, MsgEmpty),
      WireJson(200, Envelope(10003, MsgKeyInvalid)),
      WireJson(200, Envelope(10003, MsgInvalidApiKey)),
      WireJson(401, JDict([retCode |-> JStr(Rc401), retMsg |-> JStr(MsgEmpty)])),
      WireJson(401, JDict([code |-> JNum(401), message |-> JStr(MsgUnauthorized)])),
      WireJson(200, Listing(JNum(5))),
      WireJson(200, Listing(JNum(0))),
      WireJson(200, Listing(JNum(-1))),
      WireJson(200, Listing(JStr(<<"1", "2">>))),
      WireJson(200, Listing(JStr(MsgOK))),
      WireJson(200, JDict([result |-> JDict([USDT |-> JNum(7)])])),
      WireJson(200, JList(<<>>)) }

\* BybitClient._private_request: the decoded response, or an envelope
private_request(w) ==
    IF w.exc THEN Envelope(-1, w.excMsg)
    ELSE IF w.isJson THEN w.body
    ELSE Envelope(w.status, IF Len(w.text) # 0 THEN w.text ELSE MsgHttp \o Str(w.status))

ExceptionEnvelope == JDict([retCode |-> JNum(-1), retMsg |-> JStr(MsgException)])

\* float(d.get(k, 0) or 0), an exception becoming the envelope of line 343
FloatOf(d, k) ==
    LET x == Or(Get(d, k, JNum(0)), JNum(0))
    IN  IF FloatRaises(x) THEN ExceptionEnvelope ELSE JNum(Float(x))

\* for item in res["list"]: if item.get("coin") == "USDT": return float(...)
\* gives JNull when the loop ends without returning
RECURSIVE ScanList(_, _)
ScanList(items, i) ==
    IF i > Len(items) THEN JNull
    ELSE IF items[i].t # "dict" THEN ExceptionEnvelope
    ELSE LET c == Get(items[i].d, "coin", JNull)
         IN  IF c.t = "str" /\ c.s = UsdtChars THEN FloatOf(items[i].d, "equity")
             ELSE ScanList(items, i + 1)

\* BybitClient.get_balance_usdt, lines 331-340: the balance taken out of a
\* decoded response j that is not an envelope
extract_balance(j) ==
    IF j.t # "dict" THEN ExceptionEnvelope
    ELSE LET r0 == Get(j.d, "result", JNull)
             res == IF Truthy(r0) THEN r0 ELSE JDict(EmptyDict)
             hasList == res.t = "dict" /\ "list" \in DOMAIN res.d /\ res.d["list"].t = "list"
             inList == IF hasList THEN ScanList(res.d["list"].q, 1) ELSE JNull
         IN  IF res.t # "dict" THEN JNum(0)
             ELSE IF inList.t # "null" THEN inList
             ELSE IF "USDT" \in DOMAIN res.d THEN FloatOf(res.d, "USDT")
             ELSE JNum(0)

\* mutant: the envelope check of lines 329-330 left out
balance_of_coerced(j) == extract_balance(j)

\* BybitClient.get_balance_usdt on the decoded response j
balance_of(j) ==
    IF j.t = "dict" /\ ("retCode" \in DOMAIN j.d \/ "retMsg" \in DOMAIN j.d) THEN j
    ELSE extract_balance(j)

get_balance_usdt(w) == balance_of(private_request(w))

\* isinstance(bal, (int, float))
IsNumber(r) == r.t = "num"

(***************************************************************************)
(* run_once: classification of the balance response (lines 426-431).       *)
(***************************************************************************)
RetCodeText(resp) ==
    PyStr(Or(Get(resp.d, "retCode", JStr(MsgEmpty)), Get(resp.d, "code", JStr(MsgEmpty))))

RetMsgText(resp) ==
    PyStr(Or(Get(resp.d, "retMsg", JStr(MsgEmpty)), Get(resp.d, "message", JStr(MsgEmpty))))

\* mutant: every envelope with a response code taken for an auth failure
auth_failed_any_code(resp) == resp.t = "dict" /\ RetCodeText(resp) # MsgEmpty

auth_failed(resp) ==
    /\ resp.t = "dict"
    /\ \/ RetCodeText(resp) = Rc401
       \/ Contains(MarkUnauthor, Lower(RetMsgText(resp)))
       \/ Contains(MarkInvalidApi, Lower(RetMsgText(resp)))
       \/ Contains(MarkInvalidApikey, Lower(RetMsgText(resp)))

(***************************************************************************)
(* State.                                                                  *)
(***************************************************************************)
VARIABLES
    usersFile,  \* the profiles document: [state, data]; state is "ok", "missing",
                \* or "partial" (opened for writing and truncated, not yet dumped)
    clock,      \* datetime.utcnow()
    pc,         \* run_once: "idle", "loop", "probe", "disable"
    users,      \* run_once: the mapping it loaded and mutates in memory
    todo,       \* run_once: keys of list(users.items()) not yet visited
    cur,        \* run_once: the key being processed ("" between users)
    cycles,     \* number of run_once calls started
    cyc,        \* history: what the current cycle did for each user
    streak,     \* history: consecutive cycles that classified an auth failure
    sent,       \* history: balance requests sent for each user since the start, to the
                \* configured environment (env) and to the opposite one (alt), and how
                \* many of them while the file had the user's DISABLED_AUTH true (late)
    lock,       \* db_json.LOCK: "" or the thread that holds it
    tpc,        \* store thread: "idle", "save" (mapping loaded and mutated), "writing"
    tusers,     \* store thread: its local mapping
    top,        \* store thread: the operation it runs (or ran last)
    tdone,      \* store thread: number of operations completed
    loaded,     \* history: what the thread's last read of the file returned (got), with
                \* the complete mappings the file held before (old) and after (new) the
                \* write in progress at that moment
    prev,       \* history: the last complete mapping the file held
    tradesFile, \* the ledger document: [state, data], data a sequence of trade records
    ltrades,    \* append_trade: the list the thread read and appended to
    inp,        \* the argument of the function under study (a call made on its own)
    out         \* its result, [done |-> FALSE] until the call is made

monVars == <<pc, users, todo, cur, cycles, cyc, streak, sent>>
storeVars == <<lock, tpc, tusers, top, tdone, loaded, prev>>
auxVars == <<tradesFile, ltrades, inp, out>>
vars == <<usersFile, clock, pc, users, todo, cur, cycles, cyc, streak, sent,
          lock, tpc, tusers, top, tdone, loaded, prev, tradesFile, ltrades, inp, out>>

Threads == {"a", "b"}

NoOp == [kind |-> "none", key |-> "", s1 |-> "", s2 |-> "", n |-> 0, b |-> FALSE]

FileOk(data) == [state |-> "ok", data |-> data]

(***************************************************************************)
(* trading_core.load_users / save_users: no lock, no exception handling.   *)
(***************************************************************************)
tc_load_users(file) == IF file.state = "missing" THEN EmptyDict ELSE file.data

\* json.load raises on a truncated document
tc_load_raises(file) == file.state = "partial"

tc_save_users(data) == FileOk(data)

(***************************************************************************)
(* run_once: the checks that skip a user (lines 394-409).                  *)
(***************************************************************************)
SettingsOf(u) == Get(u, "settings", EmptyDict)

\* datetime.fromisoformat(str(sub_until)) < datetime.utcnow()
SubscriptionExpired(u, now) ==
    LET sub_until == Get(u, "sub_until", NoneVal)
    IN  sub_until # NoneVal /\ sub_until < now

KeysMissing(u) == Get(u, "api_key", "") = "" \/ Get(u, "api_secret", "") = ""

\* mutant: the DISABLED_AUTH check of line 395 left out
run_once_skips_no_flag(u, now) == SubscriptionExpired(u, now) \/ KeysMissing(u)

run_once_skips(u, now) ==
    \/ Get(SettingsOf(u), "DISABLED_AUTH", FALSE)
    \/ SubscriptionExpired(u, now)
    \/ KeysMissing(u)

\* bool(settings.get("TESTNET", True))
TestnetOf(u) == Get(SettingsOf(u), "TESTNET", TRUE)

AuthFailuresOf(u) == Get(u, "_auth_failures", 0)

\* mutant: the probe repeated on every failure short of the disabling one
ProbeDue_every(n) == n < 3

\* if u['_auth_failures'] == 1
ProbeDue(n) == n = 1

\* mutant: off by one, disabling at the fourth failure
DisableDue_late(n) == n > 3

\* if u['_auth_failures'] >= 3
DisableDue(n) == n >= 3

\* u['_auth_failures'] = u.get('_auth_failures', 0) + 1
on_auth_failure(u) == SetKey(u, "_auth_failures", AuthFailuresOf(u) + 1)

\* mutant: the reset of line 446 left out
on_success_no_reset(u) == u

\* u['_auth_failures'] = 0
on_success(u) == SetKey(u, "_auth_failures", 0)

\* history only: what get_balance returned (retCode 0 is the exchange's "OK")
RespKind(resp) ==
    IF IsNumber(resp) THEN "number"
    ELSE IF "retCode" \in DOMAIN resp.d /\ resp.d["retCode"] = JNum(0) THEN "ok_envelope"
    ELSE "error_envelope"

\* history only: the user is one the specification says a cycle must skip
Inactive(u, now) ==
    \/ Get(SettingsOf(u), "DISABLED_AUTH", FALSE)
    \/ Get(u, "sub_until", NoneVal) = NoneVal
    \/ Get(u, "sub_until", NoneVal) < now
    \/ Get(u, "api_key", "") = ""
    \/ Get(u, "api_secret", "") = ""

\* the balance call and its classification, for each wire outcome of the model
BalanceOf == [w \in WireOutcomes |-> get_balance_usdt(w)]

AuthFailWires == {w \in WireOutcomes : auth_failed(BalanceOf[w])}

NoCyc == [outcome |-> "none", calls |-> 0, probes |-> 0, env |-> TRUE, exc |-> FALSE,
          kind |-> "none", before |-> 0, probe |-> "none", inactive |-> FALSE]

Visit(c, u, now, outcome) == [c EXCEPT !.outcome = outcome, !.inactive = Inactive(u, now),
                                       !.env = TestnetOf(u), !.before = AuthFailuresOf(u)]

Called(c, w, resp) == [c EXCEPT !.calls = @ + 1, !.exc = w.exc, !.kind = RespKind(resp)]

NoneSent == [env |-> 0, alt |-> 0, late |-> 0]

\* history only: the profiles file has the user's DISABLED_AUTH true
DisabledOnFile(k) ==
    /\ usersFile.state = "ok"
    /\ k \in DOMAIN usersFile.data
    /\ Get(SettingsOf(usersFile.data[k]), "DISABLED_AUTH", FALSE)

\* history only: one more request for user k, to the environment named by field
Sending(k, field) ==
    [sent EXCEPT ![k] = [@ EXCEPT ![field] = @ + 1,
                                 !.late = @ + (IF DisabledOnFile(k) THEN 1 ELSE 0)]]

(***************************************************************************)
(* run_once, one action per file write.                                    *)
(***************************************************************************)
\* users = load_users(), in a run that makes at most bound cycles
RunOnceLoadUpTo(bound) ==
    /\ pc = "idle"
    /\ cycles < bound
    /\ ~tc_load_raises(usersFile)
    /\ users' = tc_load_users(usersFile)
    /\ todo' = DOMAIN users'
    /\ pc' = "loop"
    /\ cur' = ""
    /\ cycles' = cycles + 1
    /\ cyc' = [k \in UserKeys |-> NoCyc]
    /\ UNCHANGED <<usersFile, clock, streak, sent>>
    /\ UNCHANGED storeVars
    /\ UNCHANGED auxVars

RunOnceLoad == RunOnceLoadUpTo(MaxCycles)

SkipUser(k) ==
    /\ pc = "loop"
    /\ k \in todo
    /\ run_once_skips(users[k], clock)
    /\ todo' = todo \ {k}
    /\ cyc' = [cyc EXCEPT ![k] = Visit(@, users[k], clock, "skip")]
    /\ streak' = [streak EXCEPT ![k] = 0]
    /\ UNCHANGED <<usersFile, clock, pc, users, cur, cycles, sent>>
    /\ UNCHANGED storeVars
    /\ UNCHANGED auxVars

\* after the failure counter is saved: the probe, the disabling, or the next user
AfterFailure(n) == IF ProbeDue(n) THEN "probe" ELSE IF DisableDue(n) THEN "disable" ELSE "loop"

BalanceAuthFailed(k, w) ==
    LET resp == BalanceOf[w]
        u == users[k]
        n == AuthFailuresOf(on_auth_failure(u))
    IN  /\ pc = "loop"
        /\ k \in todo
        /\ ~run_once_skips(u, clock)
        /\ w \in AuthFailWires
        /\ users' = SetKey(users, k, on_auth_failure(u))
        /\ usersFile' = tc_save_users(users')
        /\ pc' = AfterFailure(n)
        /\ cur' = IF pc' = "loop" THEN "" ELSE k
        /\ todo' = todo \ {k}
        /\ cyc' = [cyc EXCEPT ![k] = Called(Visit(@, u, clock, "authfail"), w, resp)]
        /\ streak' = [streak EXCEPT ![k] = @ + 1]
        /\ sent' = Sending(k, "env")
        /\ UNCHANGED <<clock, cycles>>
        /\ UNCHANGED storeVars
        /\ UNCHANGED auxVars

BalanceOk(k, w) ==
    LET resp == BalanceOf[w]
        u == users[k]
    IN  /\ pc = "loop"
        /\ k \in todo
        /\ ~run_once_skips(u, clock)
        /\ w \notin AuthFailWires
        /\ users' = SetKey(users, k, on_success(u))
        /\ usersFile' = tc_save_users(users')
        /\ todo' = todo \ {k}
        /\ cyc' = [cyc EXCEPT ![k] = Called(Visit(@, u, clock, "ok"), w, resp)]
        /\ streak' = [streak EXCEPT ![k] = 0]
        /\ sent' = Sending(k, "env")
        /\ UNCHANGED <<clock, pc, cur, cycles>>
        /\ UNCHANGED storeVars
        /\ UNCHANGED auxVars

\* what try_alternate_env_and_fix_user makes of the mapping for balance bal
\* mutant: the result of the probe not looked at
alt_env_works_any(bal) == TRUE

\* if isinstance(bal, (int,float)) and bal >= 0
alt_env_works(bal) == IsNumber(bal) /\ bal.n >= 0

alternate_env_fix(us, key, alt, bal) ==
    IF alt_env_works(bal)
    THEN SetKey(us, key, SetKey(us[key], "settings",
                                SetKey(Get(us[key], "settings", EmptyDict), "TESTNET", alt)))
    ELSE us

ProbeClass(bal) == IF ~IsNumber(bal) THEN "envelope" ELSE IF bal.n >= 0 THEN "nonneg" ELSE "neg"

Probe(w) ==
    LET bal == BalanceOf[w]
        key == StrOfUid(IntOfKey(cur))
        alt == ~TestnetOf(users[cur])
    IN  /\ pc = "probe"
        /\ users' = alternate_env_fix(users, key, alt, bal)
        /\ usersFile' = IF alt_env_works(bal) THEN tc_save_users(users') ELSE usersFile
        /\ pc' = IF DisableDue(AuthFailuresOf(users[cur])) THEN "disable" ELSE "loop"
        /\ cur' = IF pc' = "loop" THEN "" ELSE cur
        /\ cyc' = [cyc EXCEPT ![cur] = [@ EXCEPT !.probes = @ + 1, !.probe = ProbeClass(bal)]]
        /\ sent' = Sending(cur, "alt")
        /\ UNCHANGED <<clock, todo, cycles, streak>>
        /\ UNCHANGED storeVars
        /\ UNCHANGED auxVars

\* the alternate client raises (a client.py override may): swallowed at line 376
ProbeRaises ==
    /\ pc = "probe"
    /\ pc' = IF DisableDue(AuthFailuresOf(users[cur])) THEN "disable" ELSE "loop"
    /\ cur' = IF pc' = "loop" THEN "" ELSE cur
    /\ cyc' = [cyc EXCEPT ![cur] = [@ EXCEPT !.probes = @ + 1, !.probe = "raised"]]
    /\ UNCHANGED <<usersFile, clock, users, todo, cycles, streak, sent>>
    /\ UNCHANGED storeVars
    /\ UNCHANGED auxVars

Disable ==
    LET u == users[cur]
    IN  /\ pc = "disable"
        /\ users' = SetKey(users, cur, SetKey(u, "settings",
                                              SetKey(SettingsOf(u), "DISABLED_AUTH", TRUE)))
        /\ usersFile' = tc_save_users(users')
        /\ pc' = "loop"
        /\ cur' = ""
        /\ UNCHANGED <<clock, todo, cycles, cyc, streak, sent>>
        /\ UNCHANGED storeVars
        /\ UNCHANGED auxVars

EndCycle ==
    /\ pc = "loop"
    /\ todo = {}
    /\ pc' = "idle"
    /\ users' = EmptyDict
    /\ UNCHANGED <<usersFile, clock, todo, cur, cycles, cyc, streak, sent>>
    /\ UNCHANGED storeVars
    /\ UNCHANGED auxVars

(***************************************************************************)
(* Faults.  save_users (lines 63-65) raises when the file cannot be opened *)
(* (the file is left as it was) or when the dump fails after the open has  *)
(* truncated it; load_users (lines 57-61) raises on a truncated document.  *)
(* run_once has no handler around the body of its loop, so either leaves   *)
(* run_once; the caller (lines 513-520) logs it or the process ends.       *)
(***************************************************************************)
SaveRaises(k, truncated) ==
    LET u == users[k]
    IN  /\ pc = "loop"
        /\ k \in todo
        /\ ~run_once_skips(u, clock)
        /\ usersFile' = IF truncated THEN [state |-> "partial", data |-> EmptyDict]
                         ELSE usersFile
        /\ pc' = "idle"
        /\ users' = EmptyDict
        /\ todo' = todo \ {k}
        /\ cyc' = [cyc EXCEPT ![k] = [Visit(@, u, clock, "fault") EXCEPT !.calls = @ + 1]]
        /\ sent' = Sending(k, "env")
        /\ UNCHANGED <<clock, cur, cycles, streak>>
        /\ UNCHANGED storeVars
        /\ UNCHANGED auxVars

RunOnceLoadRaises ==
    /\ pc = "idle"
    /\ cycles < MaxCycles
    /\ tc_load_raises(usersFile)
    /\ cycles' = cycles + 1
    /\ todo' = {}
    /\ cyc' = [k \in UserKeys |-> NoCyc]
    /\ UNCHANGED <<usersFile, clock, pc, users, cur, streak, sent>>
    /\ UNCHANGED storeVars
    /\ UNCHANGED auxVars

Tick ==
    /\ clock < MaxClock
    /\ clock' = clock + 1
    /\ UNCHANGED usersFile
    /\ UNCHANGED monVars
    /\ UNCHANGED storeVars
    /\ UNCHANGED auxVars

(***************************************************************************)
(* db_json: the store's operations.                                        *)
(***************************************************************************)
\* _read(path, {}): a missing file and a document json.load rejects both give {}
db_read(file) == IF file.state = "ok" THEN file.data ELSE EmptyDict

\* _ensure_files(): creates an empty document where there is none
ensure_files(file) == IF file.state = "missing" THEN FileOk(EmptyDict) ELSE file

\* load_users(): _ensure_files(), then _read, neither under LOCK
db_load_users(file) == db_read(ensure_files(file))

\* str.strip() on the credential strings of the model
Strip(x) == CASE x = " k2 " -> "k2" [] x = " s2" -> "s2" [] OTHER -> x

BoolSettings == {"USE_RSI", "USE_EMA", "USE_MACD", "USE_OI", "TESTNET", "DRY_RUN", "DISABLED_AUTH"}

OpGet(key) == [kind |-> "get_user", key |-> key, s1 |-> "", s2 |-> "", n |-> 0, b |-> FALSE]
OpCreate(key, username) ==
    [kind |-> "create_default_user", key |-> key, s1 |-> username, s2 |-> "", n |-> 0, b |-> FALSE]
OpKeys(key, api_key, api_secret) ==
    [kind |-> "set_api_keys", key |-> key, s1 |-> api_key, s2 |-> api_secret, n |-> 0, b |-> FALSE]
OpSub(key, days) ==
    [kind |-> "set_subscription", key |-> key, s1 |-> "", s2 |-> "", n |-> days, b |-> FALSE]
OpSetInt(key, name, value) ==
    [kind |-> "update_setting", key |-> key, s1 |-> name, s2 |-> "", n |-> value, b |-> FALSE]
OpSetBool(key, name, value) ==
    [kind |-> "update_setting", key |-> key, s1 |-> name, s2 |-> "", n |-> 0, b |-> value]

SetProfileKey(us, key, field, value) == SetKey(us, key, SetKey(us[key], field, value))

set_api_keys(us, key, api_key, api_secret) ==
    LET n == ensure_user_defaults(us, key, "")
    IN  SetProfileKey(SetProfileKey(n, key, "api_key", Strip(api_key)),
                      key, "api_secret", Strip(api_secret))

set_subscription(us, key, days, now) ==
    SetProfileKey(ensure_user_defaults(us, key, ""), key, "sub_until", now + days)

update_setting(us, key, name, value) ==
    LET n == ensure_user_defaults(us, key, "")
    IN  SetProfileKey(n, key, "settings", SetKey(n[key]["settings"], name, value))

\* the mapping an operation hands to save_users, from the mapping it loaded
apply_op(us, op, now) ==
    CASE op.kind = "get_user" -> ensure_user_defaults(us, op.key, "")
      [] op.kind = "create_default_user" -> ensure_user_defaults(us, op.key, op.s1)
      [] op.kind = "set_api_keys" -> set_api_keys(us, op.key, op.s1, op.s2)
      [] op.kind = "set_subscription" -> set_subscription(us, op.key, op.n, now)
      [] op.kind = "update_setting" ->
            update_setting(us, op.key, op.s1, IF op.s1 \in BoolSettings THEN op.b ELSE op.n)

StoreOps ==
    UNION { { OpGet(k), OpCreate(k, "bob"), OpKeys(k, " k2 ", " s2"), OpSub(k, 1),
              OpSetInt(k, "RSI_PERIOD", 21), OpSetBool(k, "TESTNET", FALSE) } : k \in UserKeys }

\* load_users() and the mutation in memory; the lock is not taken
OpsStarted == tdone["a"] + tdone["b"] + Cardinality({t \in Threads : tpc[t] # "idle"})

\* the mapping the write in progress (if any) is putting into the file
BeingWritten == IF lock = "" THEN prev ELSE tusers[lock]

StoreBegin(t, op) ==
    /\ tpc[t] = "idle"
    /\ OpsStarted < MaxOps
    /\ usersFile' = ensure_files(usersFile)
    /\ loaded' = [loaded EXCEPT ![t] = [got |-> db_load_users(usersFile),
                                        old |-> prev, new |-> BeingWritten]]
    /\ tusers' = [tusers EXCEPT ![t] = apply_op(db_load_users(usersFile), op, clock)]
    /\ top' = [top EXCEPT ![t] = op]
    /\ tpc' = [tpc EXCEPT ![t] = "save"]
    /\ UNCHANGED <<clock, lock, tdone, prev>>
    /\ UNCHANGED monVars
    /\ UNCHANGED auxVars

\* save_users(): with LOCK: _write opens the file for writing, which truncates it
StoreWriteOpen(t) ==
    /\ tpc[t] = "save"
    /\ lock = ""
    /\ lock' = t
    /\ usersFile' = [state |-> "partial", data |-> EmptyDict]
    /\ tpc' = [tpc EXCEPT ![t] = "writing"]
    /\ UNCHANGED <<clock, tusers, top, tdone, loaded, prev>>
    /\ UNCHANGED monVars
    /\ UNCHANGED auxVars

\* json.dump completes, the file is closed and LOCK released
StoreWriteDone(t) ==
    /\ tpc[t] = "writing"
    /\ lock = t
    /\ usersFile' = FileOk(tusers[t])
    /\ lock' = ""
    /\ tpc' = [tpc EXCEPT ![t] = "idle"]
    /\ tdone' = [tdone EXCEPT ![t] = @ + 1]
    /\ prev' = tusers[t]
    /\ UNCHANGED <<clock, tusers, top, loaded>>
    /\ UNCHANGED monVars
    /\ UNCHANGED auxVars

\* the operator re-enables a user between cycles: update_setting(uid, 'DISABLED_AUTH', False)
OperatorClear(k) ==
    /\ pc = "idle"
    /\ usersFile.state = "ok"
    /\ k \in DOMAIN usersFile.data
    /\ Get(SettingsOf(usersFile.data[k]), "DISABLED_AUTH", FALSE)
    /\ usersFile' = FileOk(update_setting(usersFile.data, k, "DISABLED_AUTH", FALSE))
    /\ streak' = [streak EXCEPT ![k] = 0]
    /\ UNCHANGED <<clock, pc, users, todo, cur, cycles, cyc, sent>>
    /\ UNCHANGED storeVars
    /\ UNCHANGED auxVars

(***************************************************************************)
(* Specifications.                                                         *)
(***************************************************************************)
\* sub_until: null, already past, and passing when the clock moves on
SubValues == {NoneVal, 0, 1}

\* profiles as the store writes them, with the fields run_once reads varied
InitProfile(key, api_key, api_secret, sub_until, testnet, disabled) ==
    LET p == ensure_profile([api_key |-> api_key, api_secret |-> api_secret,
                             sub_until |-> sub_until], key, "")
    IN  SetKey(p, "settings", SetKey(SetKey(p["settings"], "TESTNET", testnet),
                                     "DISABLED_AUTH", disabled))

InitProfiles(key) ==
    { InitProfile(key, ak, as, su, tn, da) :
        ak \in {"", "k1"}, as \in {"", "s1"}, su \in SubValues,
        tn \in BOOLEAN, da \in BOOLEAN }

\* the second user: credentials set, so that every cycle has a user to process
OtherProfiles(key) ==
    { InitProfile(key, "k1", "s1", su, TRUE, FALSE) : su \in {NoneVal, 0} }

InitStoreIdle ==
    /\ lock = ""
    /\ tpc = [t \in Threads |-> "idle"]
    /\ tusers = [t \in Threads |-> EmptyDict]
    /\ top = [t \in Threads |-> NoOp]
    /\ tdone = [t \in Threads |-> 0]
    /\ loaded = [t \in Threads |-> [got |-> EmptyDict, old |-> EmptyDict, new |-> EmptyDict]]

NoCall == [done |-> FALSE]

InitLedgerIdle ==
    /\ tradesFile = [state |-> "ok", data |-> <<>>]
    /\ ltrades = [t \in Threads |-> <<>>]

InitNoCall ==
    /\ inp = NoCall
    /\ out = NoCall

InitMonIdle ==
    /\ pc = "idle"
    /\ users = EmptyDict
    /\ todo = {}
    /\ cur = ""
    /\ cycles = 0
    /\ cyc = [k \in UserKeys |-> NoCyc]
    /\ streak = [k \in UserKeys |-> 0]
    /\ sent = [k \in UserKeys |-> NoneSent]

\* the monitor alone: run_once cycles, the clock, and the operator between cycles
Init ==
    /\ \E p1 \in InitProfiles("1"), p2 \in OtherProfiles("2") :
          usersFile = FileOk([k \in UserKeys |-> IF k = "1" THEN p1 ELSE p2])
    /\ clock = 1
    /\ prev = usersFile.data
    /\ InitMonIdle
    /\ InitStoreIdle
    /\ InitLedgerIdle
    /\ InitNoCall

Next ==
    \/ RunOnceLoad
    \/ \E k \in UserKeys : SkipUser(k)
    \/ \E k \in UserKeys, w \in WireOutcomes : BalanceAuthFailed(k, w)
    \/ \E k \in UserKeys, w \in WireOutcomes : BalanceOk(k, w)
    \/ \E w \in WireOutcomes : Probe(w)
    \/ ProbeRaises
    \/ Disable
    \/ EndCycle
    \/ Tick
    \/ \E k \in UserKeys : OperatorClear(k)

Spec == Init /\ [][Next]_vars

\* the monitor with a profiles file that may fail to be written
NextFault ==
    \/ Next
    \/ \E k \in UserKeys, truncated \in BOOLEAN : SaveRaises(k, truncated)
    \/ RunOnceLoadRaises

SpecFault == Init /\ [][NextFault]_vars

\* the store alone: two threads of the process run store operations
InitStore ==
    /\ \E d \in SUBSET UserKeys :
          usersFile = FileOk([k \in d |-> ensure_profile(EmptyDict, k, "")])
    /\ clock = 1
    /\ prev = usersFile.data
    /\ InitMonIdle
    /\ InitStoreIdle
    /\ InitLedgerIdle
    /\ InitNoCall

NextStore ==
    \/ \E t \in Threads, op \in StoreOps : StoreBegin(t, op)
    \/ \E t \in Threads : StoreWriteOpen(t)
    \/ \E t \in Threads : StoreWriteDone(t)

SpecStore == InitStore /\ [][NextStore]_vars

(***************************************************************************)
(* db_json.load_users as a call of its own, on every state of the file:    *)
(* missing and creatable, missing where it cannot be created                *)
(* ("missing_ro"), present and not readable ("unreadable"), not parseable  *)
(* ("partial"), and parseable ("ok") with a document that is a mapping or  *)
(* is not one (NotADict: a JSON list, number, string or null).             *)
(***************************************************************************)
\* _ensure_files(): open(path, "w") raises where the file cannot be created
ensure_files_raises(file) == file.state = "missing_ro"

\* load_users(): _ensure_files() is called outside any try, then _read
load_users_raises(file) == ensure_files_raises(file)

LoadUsers ==
    /\ ~out.done
    /\ out' = [done |-> TRUE, file |-> usersFile,
               raised |-> load_users_raises(usersFile),
               ret |-> IF load_users_raises(usersFile) THEN EmptyDict
                       ELSE db_load_users(usersFile)]
    /\ usersFile' = IF load_users_raises(usersFile) THEN usersFile ELSE ensure_files(usersFile)
    /\ UNCHANGED <<clock, tradesFile, ltrades, inp>>
    /\ UNCHANGED monVars
    /\ UNCHANGED storeVars

StoredMappings ==
    {EmptyDict}
    \cup { [k \in {"1"} |-> p1] : p1 \in InitProfiles("1") }
    \cup { [k \in UserKeys |-> IF k = "1" THEN p1 ELSE p2] :
             p1 \in InitProfiles("1"), p2 \in OtherProfiles("2") }

LoadFiles ==
    { [state |-> st, data |-> EmptyDict] : st \in {"missing", "missing_ro", "unreadable", "partial"} }
    \cup { FileOk(NotADict) }
    \cup { FileOk(m) : m \in StoredMappings }

InitLoad ==
    /\ usersFile \in LoadFiles
    /\ clock = 1
    /\ prev = EmptyDict
    /\ InitMonIdle
    /\ InitStoreIdle
    /\ InitLedgerIdle
    /\ InitNoCall

NextLoad == LoadUsers

SpecLoad == InitLoad /\ [][NextLoad]_vars

(***************************************************************************)
(* The ledger.  db_json.append_trade reads, appends and writes under LOCK; *)
(* trading_core.append_trade does the same on the same file with no lock.  *)
(* A trade record is opaque but for its user_id; by and seq name the call  *)
(* that appended it.                                                       *)
(***************************************************************************)
Trade(uid, t, n) == [user_id |-> uid, by |-> t, seq |-> n]

\* _read(path, []): a document json.load rejects gives []
db_read_trades(file) == IF file.state = "ok" THEN file.data ELSE <<>>

AppendsStarted == tdone["a"] + tdone["b"] + Cardinality({t \in Threads : tpc[t] # "idle"})

\* db_json.append_trade: with LOCK: trades = _read(path, []); trades.append(trade)
DbAppendRead(t, uid) ==
    /\ tpc[t] = "idle"
    /\ AppendsStarted < MaxAppends
    /\ lock = ""
    /\ lock' = t
    /\ ltrades' = [ltrades EXCEPT ![t] = Append(db_read_trades(tradesFile), Trade(uid, t, tdone[t] + 1))]
    /\ tpc' = [tpc EXCEPT ![t] = "db_read"]
    /\ UNCHANGED <<usersFile, clock, tusers, top, tdone, loaded, prev, tradesFile, inp, out>>
    /\ UNCHANGED monVars

\* _write(path, trades): open(path, 'w') truncates the file
DbAppendOpen(t) ==
    /\ tpc[t] = "db_read"
    /\ tradesFile' = [state |-> "partial", data |-> <<>>]
    /\ tpc' = [tpc EXCEPT ![t] = "db_write"]
    /\ UNCHANGED <<usersFile, clock, lock, tusers, top, tdone, loaded, prev, ltrades, inp, out>>
    /\ UNCHANGED monVars

\* json.dump completes, the file is closed and LOCK released
DbAppendDone(t) ==
    /\ tpc[t] = "db_write"
    /\ tradesFile' = [state |-> "ok", data |-> ltrades[t]]
    /\ lock' = ""
    /\ tpc' = [tpc EXCEPT ![t] = "idle"]
    /\ tdone' = [tdone EXCEPT ![t] = @ + 1]
    /\ UNCHANGED <<usersFile, clock, tusers, top, loaded, prev, ltrades, inp, out>>
    /\ UNCHANGED monVars

\* trading_core.append_trade: open(path, "r+"); data = json.load(f); data.append(trade)
TcAppendLoad(t, uid) ==
    /\ tpc[t] = "idle"
    /\ AppendsStarted < MaxAppends
    /\ tradesFile.state = "ok"
    /\ ltrades' = [ltrades EXCEPT ![t] = Append(tradesFile.data, Trade(uid, t, tdone[t] + 1))]
    /\ tpc' = [tpc EXCEPT ![t] = "tc_loaded"]
    /\ UNCHANGED <<usersFile, clock, lock, tusers, top, tdone, loaded, prev, tradesFile, inp, out>>
    /\ UNCHANGED monVars

\* json.load raises on a truncated document: logged at line 81, nothing is appended
TcAppendLoadRaises(t) ==
    /\ tpc[t] = "idle"
    /\ AppendsStarted < MaxAppends
    /\ tradesFile.state = "partial"
    /\ tdone' = [tdone EXCEPT ![t] = @ + 1]
    /\ UNCHANGED <<usersFile, clock, lock, tpc, tusers, top, loaded, prev, tradesFile, ltrades, inp, out>>
    /\ UNCHANGED monVars

\* f.seek(0); json.dump(data, f); f.truncate(); where db_json has the file open
\* for writing, what the file holds is settled when that write completes
TcAppendWrite(t) ==
    /\ tpc[t] = "tc_loaded"
    /\ tradesFile' = IF tradesFile.state = "partial" THEN tradesFile
                     ELSE [state |-> "ok", data |-> ltrades[t]]
    /\ tpc' = [tpc EXCEPT ![t] = "idle"]
    /\ tdone' = [tdone EXCEPT ![t] = @ + 1]
    /\ UNCHANGED <<usersFile, clock, lock, tusers, top, loaded, prev, ltrades, inp, out>>
    /\ UNCHANGED monVars

InitLedger ==
    /\ usersFile = FileOk(EmptyDict)
    /\ clock = 1
    /\ prev = EmptyDict
    /\ InitMonIdle
    /\ InitStoreIdle
    /\ InitLedgerIdle
    /\ InitNoCall

NextLedger ==
    \/ \E t \in Threads, uid \in Uids : DbAppendRead(t, uid)
    \/ \E t \in Threads : DbAppendOpen(t)
    \/ \E t \in Threads : DbAppendDone(t)
    \/ \E t \in Threads, uid \in Uids : TcAppendLoad(t, uid)
    \/ \E t \in Threads : TcAppendLoadRaises(t)
    \/ \E t \in Threads : TcAppendWrite(t)

SpecLedger == InitLedger /\ [][NextLedger]_vars

(***************************************************************************)
(* db_json.get_trades_for_user as a call of its own, on every ledger of up *)
(* to MaxLedger records.                                                   *)
(***************************************************************************)
\* s[start:], start counted from the end when negative
SliceFrom(s, start) ==
    LET n == Len(s)
        i == IF start < 0 THEN (IF n + start < 0 THEN 0 ELSE n + start)
             ELSE (IF start > n THEN n ELSE start)
    IN  SubSeq(s, i + 1, n)

\* [t for t in trades if str(t.get('user_id')) == uid]
TradesOfUser(trades, uid) ==
    LET owned(r) == StrOfUid(r.user_id) = StrOfUid(uid)
    IN  SelectSeq(trades, owned)

\* user_trades[-limit:]
get_trades_for_user(trades, uid, limit) == SliceFrom(TradesOfUser(trades, uid), 0 - limit)

GetTradesForUser ==
    /\ ~out.done
    /\ out' = [done |-> TRUE,
               ret |-> get_trades_for_user(db_read_trades(tradesFile), inp.uid, inp.limit)]
    /\ UNCHANGED <<usersFile, clock, tradesFile, ltrades, inp>>
    /\ UNCHANGED monVars
    /\ UNCHANGED storeVars

RECURSIVE OwnersUpTo(_)
OwnersUpTo(n) ==
    IF n = 0 THEN {<<>>}
    ELSE OwnersUpTo(n - 1) \cup { Append(q, uid) : q \in [1..(n - 1) -> Uids], uid \in Uids }

\* ledgers as append_trade leaves them: record i appended by call i
Ledgers == { [i \in 1..Len(q) |-> Trade(q[i], "a", i)] : q \in OwnersUpTo(MaxLedger) }

InitTrades ==
    /\ usersFile = FileOk(EmptyDict)
    /\ clock = 1
    /\ prev = EmptyDict
    /\ InitMonIdle
    /\ InitStoreIdle
    /\ tradesFile \in { [state |-> "ok", data |-> l] : l \in Ledgers }
    /\ ltrades = [t \in Threads |-> <<>>]
    /\ inp \in [uid : Uids, limit : 0..MaxLimit]
    /\ out = NoCall

NextTrades == GetTradesForUser

SpecTrades == InitTrades /\ [][NextTrades]_vars

(***************************************************************************)
(* db_json._ensure_user_defaults as a call of its own, on stored profiles  *)
(* of every shape: any subset of the top-level fields, and a settings      *)
(* value that is absent, not a mapping, empty, partial (with an option the *)
(* table does not know) or complete.                                       *)
(***************************************************************************)
RawTopKeys == {"username", "api_key", "api_secret", "sub_until", "_positions", "_auth_failures"}

RawTopValue(k, sub_until) ==
    CASE k = "username" -> <<"name", "alice">>
      [] k = "api_key" -> "k1"
      [] k = "api_secret" -> "s1"
      [] k = "sub_until" -> sub_until
      [] k = "_positions" -> [BTCUSDT |-> 1]
      [] k = "_auth_failures" -> 2

RawSettingsKinds == {"absent", "notdict", "empty", "partial", "custom", "complete"}

RawSettings(kind) ==
    CASE kind = "notdict" -> NotADict
      [] kind = "empty" -> EmptyDict
      [] kind = "partial" -> [RSI_PERIOD |-> 21]
      [] kind = "custom" -> [USE_RSI |-> FALSE, TESTNET |-> FALSE, MY_OPTION |-> 7]
      [] kind = "complete" -> [defaults EXCEPT !.RSI_PERIOD = 21, !.DRY_RUN = FALSE]

RawProfile(fields, sub_until, kind) ==
    LET p == [k \in fields |-> RawTopValue(k, sub_until)]
    IN  IF kind = "absent" THEN p ELSE SetKey(p, "settings", RawSettings(kind))

\* normalize(p) and normalize(normalize(p)), for the profile p stored under key
Normalize ==
    /\ ~out.done
    /\ out' = [done |-> TRUE,
               once |-> ensure_profile(inp.p, inp.key, inp.username),
               twice |-> ensure_profile(ensure_profile(inp.p, inp.key, inp.username),
                                        inp.key, inp.username)]
    /\ UNCHANGED <<usersFile, clock, tradesFile, ltrades, inp>>
    /\ UNCHANGED monVars
    /\ UNCHANGED storeVars

InitNormalize ==
    /\ usersFile = FileOk(EmptyDict)
    /\ clock = 1
    /\ prev = EmptyDict
    /\ InitMonIdle
    /\ InitStoreIdle
    /\ InitLedgerIdle
    /\ \E fields \in SUBSET RawTopKeys, sub_until \in {NoneVal, 5}, kind \in RawSettingsKinds,
          key \in UserKeys, username \in {"", "bob"} :
          inp = [p |-> RawProfile(fields, sub_until, kind), kind |-> kind,
                 key |-> key, username |-> username]
    /\ out = NoCall

NextNormalize == Normalize

SpecNormalize == InitNormalize /\ [][NextNormalize]_vars

(***************************************************************************)
(* db_json start-up (lines 176-185): every stored profile is normalized,   *)
(* and the mapping is saved if a profile compares unequal to the copy      *)
(* taken before.                                                           *)
(***************************************************************************)
\* a == b on two dicts of the model (a settings value may be no dict at all)
dict_eq(a, b) ==
    /\ IsDict(a) = IsDict(b)
    /\ IsDict(a) => (DOMAIN a = DOMAIN b /\ \A k \in DOMAIN a : a[k] = b[k])

\* a == b on two profiles
profile_eq(a, b) ==
    /\ DOMAIN a = DOMAIN b
    /\ \A k \in DOMAIN a : IF k = "settings" THEN dict_eq(a[k], b[k]) ELSE a[k] = b[k]

\* before = dict(users.get(uid, {})) is a shallow copy: it shares the settings dict
\* of the profile, which _ensure_user_defaults then fills in place (line 87); this
\* is what the copy holds when line 182 compares
before_at_compare(p) ==
    IF "settings" \in DOMAIN p /\ IsDict(p["settings"])
    THEN SetKey(p, "settings", FillSettings(p["settings"]))
    ELSE p

\* users.get(uid) != before
startup_changed(p, key) == ~profile_eq(ensure_profile(p, key, ""), before_at_compare(p))

Startup ==
    LET loadedUsers == db_load_users(usersFile)
        normalized == [k \in DOMAIN loadedUsers |-> ensure_profile(loadedUsers[k], k, "")]
        changed == \E k \in DOMAIN loadedUsers : startup_changed(loadedUsers[k], k)
    IN  /\ ~out.done
        /\ usersFile' = IF changed THEN FileOk(normalized) ELSE ensure_files(usersFile)
        /\ out' = [done |-> TRUE, wrote |-> changed, before |-> loadedUsers, after |-> normalized]
        /\ UNCHANGED <<clock, tradesFile, ltrades, inp>>
        /\ UNCHANGED monVars
        /\ UNCHANGED storeVars

InitStartup ==
    /\ \E fields \in SUBSET RawTopKeys, sub_until \in {NoneVal, 5}, kind \in RawSettingsKinds,
          others \in SUBSET {"2"} :
          usersFile = FileOk([k \in {"1"} \cup others |->
                                IF k = "1" THEN RawProfile(fields, sub_until, kind)
                                ELSE ensure_profile(EmptyDict, k, "")])
    /\ clock = 1
    /\ prev = EmptyDict
    /\ InitMonIdle
    /\ InitStoreIdle
    /\ InitLedgerIdle
    /\ InitNoCall

NextStartup == Startup

SpecStartup == InitStartup /\ [][NextStartup]_vars

(***************************************************************************)
(* BybitClient.get_balance_usdt as a call of its own, on the wire outcomes *)
(* of the monitor's model and on decoded bodies of every combination of    *)
(* the fields retCode, retMsg, code, message and result.                   *)
(***************************************************************************)
BodyKeys == {"retCode", "retMsg", "code", "message"}

ResultKinds == {"none", "listing", "listing_text", "direct", "bad_item"}

BodyValue(k, status, kind) ==
    CASE k = "retCode" -> JNum(IF status = 200 THEN 0 ELSE 10003)
      [] k = "retMsg" -> JStr(IF status = 200 THEN MsgOK ELSE MsgKeyInvalid)
      [] k = "code" -> JNum(status)
      [] k = "message" -> JStr(IF status = 200 THEN MsgOK ELSE MsgUnauthorized)
      [] k = "result" ->
            CASE kind = "listing" -> Listing(JNum(5)).d["result"]
              [] kind = "listing_text" -> Listing(JStr(<<"1", "2">>)).d["result"]
              [] kind = "direct" -> JDict([USDT |-> JNum(7)])
              [] kind = "bad_item" -> JDict([list |-> JList(<<JNum(1)>>)])

Body(keys, status, kind) ==
    JDict([k \in keys \cup (IF kind = "none" THEN {} ELSE {"result"}) |-> BodyValue(k, status, kind)])

BalanceWires ==
    WireOutcomes
    \cup { WireJson(status, Body(keys, status, kind)) :
             status \in {200, 401}, keys \in SUBSET BodyKeys, kind \in ResultKinds }

GetBalance ==
    /\ ~out.done
    /\ out' = [done |-> TRUE, j |-> private_request(inp), ret |-> get_balance_usdt(inp)]
    /\ UNCHANGED <<usersFile, clock, tradesFile, ltrades, inp>>
    /\ UNCHANGED monVars
    /\ UNCHANGED storeVars

InitBalance ==
    /\ usersFile = FileOk(EmptyDict)
    /\ clock = 1
    /\ prev = EmptyDict
    /\ InitMonIdle
    /\ InitStoreIdle
    /\ InitLedgerIdle
    /\ inp \in BalanceWires
    /\ out = NoCall

NextBalance == GetBalance

SpecBalance == InitBalance /\ [][NextBalance]_vars

(***************************************************************************)
(* trading_core.normalize_ohlcv_to_df on a list of rows.  A row is a list  *)
(* of n elements whose first is the timestamp, a mapping with some of the  *)
(* timestamp fields t, start, timestamp, time, or neither (a scalar).      *)
(* Instants are milliseconds since the epoch; the frame returned is held   *)
(* as the rows kept (their positions in the input) and its sorted index.   *)
(***************************************************************************)
NaT == -1

MsgBad == <<"b", "a", "d">>

CalendarText == <<"1", "9", "7", "0", "-", "0", "1", "-", "0", "1", "T", "0", "0", ":", "0", "0", ":", "0", "0", ".", "0", "6", "0", "Z">>

ListRow(n, ts) == [shape |-> "list", n |-> n, d |-> [t |-> ts]]

DictRow(d) == [shape |-> "dict", n |-> 0, d |-> d]

ScalarRow == [shape |-> "scalar", n |-> 0, d |-> EmptyDict]

\* str(x).isdigit()
IsDigitText(s) == Len(s) > 0 /\ \A i \in 1..Len(s) : IsDigitChar(s[i])

\* pd.to_datetime(x, utc=True) on the texts of the model: a calendar timestamp
\* parses, any other text raises
parse_calendar(s) == IF s = CalendarText THEN 60 ELSE NaT

\* _to_dt(x), lines 162-170
to_dt(x) ==
    CASE x.t = "null" -> NaT
      [] x.t = "num" -> IF IsDigitText(Str(x.n)) THEN ParseDigits(Str(x.n)) ELSE NaT
      [] x.t = "str" -> IF IsDigitText(x.s) THEN ParseDigits(x.s) ELSE parse_calendar(x.s)
      [] OTHER -> NaT

\* it.get(k): None where the key is absent
RowGet(d, k) == Get(d, k, JNull)

\* ts = it.get("t") or it.get("start") or it.get("timestamp") or it.get("time")
dict_timestamp(d) ==
    Or(RowGet(d, "t"), Or(RowGet(d, "start"), Or(RowGet(d, "timestamp"), RowGet(d, "time"))))

\* lines 141-158: whether the row is appended to rows, and with what timestamp
row_taken(it) == (it.shape = "list" /\ it.n >= 5) \/ it.shape = "dict"

row_timestamp(it) == IF it.shape = "list" THEN it.d["t"] ELSE dict_timestamp(it.d)

\* sort_index(): ascending
RECURSIVE SortInstants(_)
SortInstants(q) ==
    IF Len(q) <= 1 THEN q
    ELSE LET rest == SortInstants(Tail(q))
             before == {i \in 1..Len(rest) : rest[i] <= Head(q)}
         IN  SubSeq(rest, 1, Cardinality(before)) \o <<Head(q)>>
             \o SubSeq(rest, Cardinality(before) + 1, Len(rest))

RECURSIVE InstantsOf(_, _)
InstantsOf(items, i) ==
    IF i > Len(items) THEN <<>>
    ELSE IF row_taken(items[i]) /\ to_dt(row_timestamp(items[i])) # NaT
         THEN <<to_dt(row_timestamp(items[i]))>> \o InstantsOf(items, i + 1)
         ELSE InstantsOf(items, i + 1)

normalize_ohlcv(items) ==
    IF Len(items) = 0 \/ \A i \in 1..Len(items) : ~row_taken(items[i])
    THEN [none |-> TRUE, kept |-> {}, index |-> <<>>]
    ELSE [none |-> FALSE,
          kept |-> {i \in 1..Len(items) :
                       row_taken(items[i]) /\ to_dt(row_timestamp(items[i])) # NaT},
          index |-> SortInstants(InstantsOf(items, 1))]

NormalizeOhlcv ==
    /\ ~out.done
    /\ out' = [done |-> TRUE, df |-> normalize_ohlcv(inp)]
    /\ UNCHANGED <<usersFile, clock, tradesFile, ltrades, inp>>
    /\ UNCHANGED monVars
    /\ UNCHANGED storeVars

Rows ==
    { ListRow(6, ts) : ts \in {JNum(100), JNum(50), JNum(0), JStr(<<"7", "5">>),
                               JStr(CalendarText), JStr(MsgBad), JNull} }
    \cup { ListRow(5, JNum(50)), ListRow(4, JNum(50)), ScalarRow }
    \cup { DictRow([t |-> JNum(100)]), DictRow([t |-> JNum(0)]),
           DictRow([t |-> JNum(0), start |-> JNum(50)]), DictRow([time |-> JNum(0)]),
           DictRow([timestamp |-> JStr(MsgBad)]), DictRow([open |-> JNum(1)]) }

RECURSIVE RowListsUpTo(_)
RowListsUpTo(n) ==
    IF n = 0 THEN {<<>>}
    ELSE RowListsUpTo(n - 1) \cup { Append(q, r) : q \in [1..(n - 1) -> Rows], r \in Rows }

InitOhlcv ==
    /\ usersFile = FileOk(EmptyDict)
    /\ clock = 1
    /\ prev = EmptyDict
    /\ InitMonIdle
    /\ InitStoreIdle
    /\ InitLedgerIdle
    /\ inp \in RowListsUpTo(MaxRows)
    /\ out = NoCall

NextOhlcv == NormalizeOhlcv

SpecOhlcv == InitOhlcv /\ [][NextOhlcv]_vars

(***************************************************************************)
(* The monitor and a store client in one process: run_once cycles          *)
(* (trading_core.load_users / save_users, lines 57-65, which take no lock) *)
(* while thread "a" runs update_setting and set_api_keys of db_json.        *)
(***************************************************************************)
MixOps == {OpKeys("1", " k2 ", " s2"), OpSetInt("2", "RSI_PERIOD", 21)}

\* one balance outcome of each class: an auth failure, a balance, a timeout
MixWires == {WireText(401, MsgUnauthorized), WireJson(200, Listing(JNum(5))), WireExc(MsgTimeout)}

\* json.dump of db_json._write reaches the file (at close, from offset 0) after
\* trading_core.save_users has rewritten it since the truncation: where the
\* monitor's document is the longer one its tail stays behind the store's
\* document and the file does not parse
StoreWriteDoneTorn(t) ==
    /\ tpc[t] = "writing"
    /\ lock = t
    /\ usersFile.state = "ok"
    /\ usersFile' = [state |-> "partial", data |-> EmptyDict]
    /\ lock' = ""
    /\ tpc' = [tpc EXCEPT ![t] = "idle"]
    /\ tdone' = [tdone EXCEPT ![t] = @ + 1]
    /\ UNCHANGED <<clock, tusers, top, loaded, prev>>
    /\ UNCHANGED monVars
    /\ UNCHANGED auxVars

\* two users with credentials; the first Healthy, or Degraded(2) as two cycles
\* with an auth failure leave it; the second with or without a live subscription
InitMix ==
    /\ \E n \in {0, 2}, p2 \in OtherProfiles("2") :
          usersFile = FileOk([k \in UserKeys |->
              LET p == InitProfile(k, "k1", "s1", NoneVal, TRUE, FALSE)
              IN  IF k = "2" THEN p2
                  ELSE IF n > 0 THEN SetKey(p, "_auth_failures", n) ELSE p])
    /\ clock = 1
    /\ prev = usersFile.data
    /\ InitMonIdle
    /\ InitStoreIdle
    /\ InitLedgerIdle
    /\ InitNoCall

NextMix ==
    \/ RunOnceLoadUpTo(MixCycles)
    \/ RunOnceLoadRaises
    \/ \E k \in UserKeys : SkipUser(k)
    \/ \E k \in UserKeys, w \in MixWires : BalanceAuthFailed(k, w)
    \/ \E k \in UserKeys, w \in MixWires : BalanceOk(k, w)
    \/ \E w \in MixWires : Probe(w)
    \/ ProbeRaises
    \/ Disable
    \/ EndCycle
    \/ \E op \in MixOps : StoreBegin("a", op)
    \/ StoreWriteOpen("a")
    \/ StoreWriteDone("a")
    \/ StoreWriteDoneTorn("a")

SpecMix == InitMix /\ [][NextMix]_vars

(***************************************************************************)
(* run_once cycles alone, over more cycles than it takes to disable a      *)
(* user: no store operation and no operator between the cycles.  The first *)
(* user starts Healthy with credentials; the second has none.              *)
(***************************************************************************)
InitCycles ==
    /\ \E su \in {NoneVal, 1}, tn \in BOOLEAN :
          usersFile = FileOk([k \in UserKeys |->
              IF k = "1" THEN InitProfile(k, "k1", "s1", su, tn, FALSE)
              ELSE InitProfile(k, "", "", NoneVal, TRUE, FALSE)])
    /\ clock = 1
    /\ prev = usersFile.data
    /\ InitMonIdle
    /\ InitStoreIdle
    /\ InitLedgerIdle
    /\ InitNoCall

\* with any sequence of balance outcomes
NextCycles ==
    \/ RunOnceLoadUpTo(MaxRounds)
    \/ \E k \in UserKeys : SkipUser(k)
    \/ \E k \in UserKeys, w \in WireOutcomes : BalanceAuthFailed(k, w)
    \/ \E k \in UserKeys, w \in WireOutcomes : BalanceOk(k, w)
    \/ \E w \in WireOutcomes : Probe(w)
    \/ ProbeRaises
    \/ Disable
    \/ EndCycle
    \/ Tick

SpecCycles == InitCycles /\ [][NextCycles]_vars

\* a broken credential: every balance request, in either environment, comes
\* back as a response run_once classifies as an auth failure
NextBroken ==
    \/ RunOnceLoadUpTo(MaxRounds)
    \/ \E k \in UserKeys : SkipUser(k)
    \/ \E k \in UserKeys, w \in AuthFailWires : BalanceAuthFailed(k, w)
    \/ \E w \in AuthFailWires : Probe(w)
    \/ Disable
    \/ EndCycle
    \/ Tick

SpecBroken == InitCycles /\ [][NextBroken]_vars

(***************************************************************************)
(* The claims.                                                             *)
(***************************************************************************)
Persisted(k) == usersFile.data[k]

DisabledInFile(k) == Get(SettingsOf(Persisted(k)), "DISABLED_AUTH", FALSE)

\* what a completed store operation must have left in the mapping
OpEffect(op, data) ==
    /\ op.key \in DOMAIN data
    /\ CASE op.kind = "set_api_keys" ->
              /\ Get(data[op.key], "api_key", "") = Strip(op.s1)
              /\ Get(data[op.key], "api_secret", "") = Strip(op.s2)
         [] op.kind = "set_subscription" ->
              Get(data[op.key], "sub_until", NoneVal) = clock + op.n
         [] op.kind = "update_setting" ->
              /\ op.s1 \in DOMAIN SettingsOf(data[op.key])
              /\ SettingsOf(data[op.key])[op.s1] = IF op.s1 \in BoolSettings THEN op.b ELSE op.n
         [] OTHER -> TRUE

\* C1: when two store operations on different user ids have both completed,
\* whatever their interleaving, the profiles file holds the changes of both.
C1_NoLostUpdate ==
    ( /\ \A t \in Threads : tpc[t] = "idle" /\ tdone[t] = 1
      /\ top["a"].key # top["b"].key )
    => /\ usersFile.state = "ok"
       /\ OpEffect(top["a"], usersFile.data)
       /\ OpEffect(top["b"], usersFile.data)

\* C2: after three consecutive cycles that classified the user's balance call as
\* an auth failure, with no success in between, DISABLED_AUTH is true in the
\* profiles file (as soon as the third cycle's disabling write is done).
C2_ThreeFailuresDisable ==
    \A k \in UserKeys :
        (streak[k] >= 3 /\ ~(pc = "disable" /\ cur = k)) => DisabledInFile(k)

C2_Witness ==
    \E k \in UserKeys :
        /\ pc = "idle"
        /\ streak[k] = 3
        /\ AuthFailuresOf(Persisted(k)) = 3
        /\ DisabledInFile(k)

\* C3: whenever a user's balance call succeeds in a cycle (a number, or the
\* exchange's OK envelope), _auth_failures is 0 in the persisted profile, whatever
\* it was before.
C3_SuccessResets ==
    \A k \in UserKeys :
        (cyc[k].outcome = "ok" /\ cyc[k].kind \in {"number", "ok_envelope"})
        => /\ "_auth_failures" \in DOMAIN Persisted(k)
           /\ Persisted(k)["_auth_failures"] = 0

C3_Witness ==
    \E k \in UserKeys :
        /\ pc = "idle"
        /\ cyc[k].outcome = "ok"
        /\ cyc[k].kind = "number"
        /\ cyc[k].before = 2
        /\ AuthFailuresOf(Persisted(k)) = 0

\* C4: after the probe of auth failure #1 under TESTNET = e, the persisted
\* TESTNET is not e if the probe returned a non-negative number, and e if it
\* returned an envelope or raised; _auth_failures is 1 either way.
C4_AlternateEnv ==
    \A k \in UserKeys :
        cyc[k].probes = 1
        => /\ AuthFailuresOf(Persisted(k)) = 1
           /\ cyc[k].probe = "nonneg" => TestnetOf(Persisted(k)) = ~cyc[k].env
           /\ cyc[k].probe \in {"envelope", "raised"} => TestnetOf(Persisted(k)) = cyc[k].env

C4_Witness ==
    \E k \in UserKeys :
        /\ pc = "idle"
        /\ cyc[k].probes = 1
        /\ cyc[k].probe = "nonneg"
        /\ cyc[k].env = TRUE
        /\ TestnetOf(Persisted(k)) = FALSE
        /\ AuthFailuresOf(Persisted(k)) = 1

\* C5: a cycle issues the probe for a user exactly when its auth failure brings
\* _auth_failures to 1, and at most once; while the probe is pending the failure
\* that is due it has just been counted.
C5_ProbeOnlyAtFirstFailure ==
    \A k \in UserKeys :
        /\ cyc[k].probes <= 1
        /\ IF pc = "probe" /\ cur = k
           THEN cyc[k].probes = 0 /\ cyc[k].outcome = "authfail" /\ cyc[k].before + 1 = 1
           ELSE cyc[k].probes = 1 <=> (cyc[k].outcome = "authfail" /\ cyc[k].before + 1 = 1)

C5_Witness ==
    /\ pc = "idle"
    /\ cyc["1"].outcome = "authfail" /\ cyc["1"].before = 1 /\ cyc["1"].probes = 0
    /\ cyc["2"].outcome = "authfail" /\ cyc["2"].before = 0 /\ cyc["2"].probes = 1

\* C6: a user whose DISABLED_AUTH is true, whose subscription is inactive
\* (sub_until absent or in the past) or whose api_key or api_secret is empty is
\* skipped in the cycle: no balance request and no probe.
C6_SkipInactive ==
    \A k \in UserKeys :
        cyc[k].inactive => cyc[k].outcome = "skip" /\ cyc[k].calls = 0 /\ cyc[k].probes = 0

\* C7: while a user's DISABLED_AUTH is true in the profiles file, no step other
\* than the operator's update changes the user's persisted profile (the flag,
\* _auth_failures, TESTNET) or sends a request for the user.
C7_DisabledTerminal ==
    [][\A k \in UserKeys :
          (DisabledInFile(k) /\ ~OperatorClear(k))
          => /\ usersFile'.data[k] = usersFile.data[k]
             /\ cyc'[k].calls <= cyc[k].calls
             /\ cyc'[k].probes <= cyc[k].probes]_vars

C7_Witness ==
    \E k \in UserKeys :
        /\ pc = "idle"
        /\ DisabledInFile(k)
        /\ cyc[k].outcome = "skip"
        /\ cyc[k].calls = 0
        /\ ~KeysMissing(Persisted(k))
        /\ ~SubscriptionExpired(Persisted(k), clock)

\* C8: a timeout or connection error of the balance call comes back as an error
\* envelope, is not classified as an auth failure, and neither increments the
\* user's _auth_failures nor sets DISABLED_AUTH.
C8_TimeoutNotAuthFailure ==
    \A k \in UserKeys :
        cyc[k].exc
        => /\ cyc[k].kind = "error_envelope"
           /\ cyc[k].outcome = "ok"
           /\ AuthFailuresOf(Persisted(k)) <= cyc[k].before
           /\ ~DisabledInFile(k)

C8_Witness ==
    \E k \in UserKeys :
        /\ pc = "idle"
        /\ cyc[k].exc
        /\ cyc[k].before = 2
        /\ ~DisabledInFile(k)

\* C9: every read of the profiles file returns a complete mapping the file held:
\* the one from before a save in progress or the one that save is writing.
C9_NoPartialRead ==
    \A t \in Threads : loaded[t].got = loaded[t].old \/ loaded[t].got = loaded[t].new

\* C10: a fault while one user is processed does not end the cycle: when
\* run_once is over, every user of the mapping it loaded has been visited.
C10_FaultIsolation ==
    (pc = "idle" /\ cycles > 0) => todo = {}

\* C11: load_users never raises and always returns a mapping, whatever the state
\* of the profiles file; for a file that is missing, unreadable or not parseable
\* the mapping is empty.
C11_LoadAlwaysMapping ==
    out.done
    => /\ ~out.raised
       /\ IsDict(out.ret)
       /\ out.file.state # "ok" => out.ret = EmptyDict

\* the records of caller t in the ledger, in ledger order
RecordsOf(t, ledger) ==
    LET by_t(r) == r.by = t
    IN  SelectSeq(ledger, by_t)

\* C12: when every append_trade call has returned, whatever the interleaving, the
\* ledger file holds every record appended, once each, the records of each
\* caller in the order of its calls.
C12_AppendOnly ==
    (\A t \in Threads : tpc[t] = "idle")
    => /\ tradesFile.state = "ok"
       /\ \A t \in Threads :
             /\ Len(RecordsOf(t, tradesFile.data)) = tdone[t]
             /\ \A i \in 1..tdone[t] : RecordsOf(t, tradesFile.data)[i].seq = i

Min(a, b) == IF a < b THEN a ELSE b

\* the last n elements of s, in the order of s
LastN(s, n) == SubSeq(s, Len(s) - n + 1, Len(s))

\* the records of the ledger whose user_id is uid, in ledger order
OwnedBy(ledger, uid) ==
    LET mine(r) == r.user_id = uid
    IN  SelectSeq(ledger, mine)

\* C13: for every ledger, user id and limit >= 0, get_trades_for_user returns
\* the last min(limit, k) of the k records of that user, in ledger order, and no
\* record of another user.
C13_LastRecords ==
    out.done
    => LET mine == OwnedBy(tradesFile.data, inp.uid)
       IN  /\ out.ret = LastN(mine, Min(inp.limit, Len(mine)))
           /\ \A i \in 1..Len(out.ret) : out.ret[i].user_id = inp.uid

\* C14: normalization is idempotent: for every profile (with no fields, with a
\* partial settings mapping, with a settings value that is not a mapping),
\* normalizing the normalized profile gives the normalized profile.
C14_NormalizeIdempotent == out.done => out.twice = out.once

C14_Witness ==
    /\ out.done
    /\ inp.kind = "notdict"
    /\ DOMAIN inp.p = {"settings"}
    /\ out.once # inp.p
    /\ out.twice = out.once

TopLevelFields == {"username", "api_key", "api_secret", "sub_until", "settings", "_positions"}

\* the documented default of a top-level field other than settings
TopLevelDefault(f, key, username) ==
    CASE f = "username" -> DefaultUsername(key, username)
      [] f = "api_key" -> ""
      [] f = "api_secret" -> ""
      [] f = "sub_until" -> NoneVal
      [] f = "_positions" -> EmptyDict

\* n is complete, has the defaults where p had nothing, and what p had where it
\* had something
FilledAndKept(p, n, key, username) ==
    /\ TopLevelFields \subseteq DOMAIN n
    /\ IsDict(n["settings"])
    /\ DOMAIN defaults \subseteq DOMAIN n["settings"]
    /\ \A f \in DOMAIN p \ {"settings"} : f \in DOMAIN n /\ n[f] = p[f]
    /\ \A f \in (TopLevelFields \ {"settings"}) \ DOMAIN p : n[f] = TopLevelDefault(f, key, username)
    /\ \A k \in DOMAIN defaults :
          IF "settings" \in DOMAIN p /\ IsDict(p["settings"]) /\ k \in DOMAIN p["settings"]
          THEN n["settings"][k] = p["settings"][k]
          ELSE n["settings"][k] = defaults[k]
    /\ ("settings" \in DOMAIN p /\ IsDict(p["settings"]))
       => \A k \in DOMAIN p["settings"] :
             k \in DOMAIN n["settings"] /\ n["settings"][k] = p["settings"][k]

SameMapping(a, b) == DOMAIN a = DOMAIN b /\ \A k \in DOMAIN a : a[k] = b[k]

\* C16: get_user writes the profiles file only when normalization changed the
\* mapping it loaded: no write when the stored profile exists and is complete.
C16_GetWritesOnlyIfChanged ==
    \A t \in Threads :
        (top[t].kind = "get_user" /\ tpc[t] = "writing")
        => ~SameMapping(tusers[t], loaded[t].got)

\* C17: the start-up pass writes the profiles file exactly when normalization
\* changed at least one profile, a change being any structural difference
\* between the profile before and after, additions inside settings included.
C17_StartupWritesIffChanged ==
    out.done
    => (out.wrote <=> \E k \in DOMAIN out.before : ~profile_eq(out.after[k], out.before[k]))

\* the decoded response carries the exchange's response-code or message field
CarriesCodeOrMessage(j) == j.t = "dict" /\ DOMAIN j.d \cap {"retCode", "retMsg"} # {}

\* the decoded response is an account listing whose USDT entry has a numeric equity
ListingEquity(j) ==
    IF /\ j.t = "dict"
       /\ "result" \in DOMAIN j.d
       /\ j.d["result"].t = "dict"
       /\ "list" \in DOMAIN j.d["result"].d
       /\ j.d["result"].d["list"].t = "list"
       /\ Len(j.d["result"].d["list"].q) = 1
       /\ j.d["result"].d["list"].q[1].t = "dict"
       /\ "coin" \in DOMAIN j.d["result"].d["list"].q[1].d
       /\ "equity" \in DOMAIN j.d["result"].d["list"].q[1].d
       /\ ~FloatRaises(j.d["result"].d["list"].q[1].d["equity"])
    THEN JNum(Float(j.d["result"].d["list"].q[1].d["equity"]))
    ELSE JNull

IsErrorEnvelope(r) ==
    r.t = "dict" /\ "retCode" \in DOMAIN r.d /\ r.d["retCode"].t = "num" /\ r.d["retCode"].n # 0

TimestampFields == <<"t", "start", "timestamp", "time">>

\* the row is of a shape the normalizer reads: a list of five or six elements or
\* a mapping with one of the timestamp fields
RecognizedRow(it) ==
    \/ it.shape = "list" /\ it.n >= 5
    \/ it.shape = "dict" /\ \E i \in 1..4 : TimestampFields[i] \in DOMAIN it.d

\* the timestamp the row carries: the first element of a list, the first of the
\* timestamp fields present in a mapping
CarriedTimestamp(it) ==
    IF it.shape = "list" THEN it.d["t"]
    ELSE it.d[TimestampFields[CHOOSE i \in 1..4 :
                  /\ TimestampFields[i] \in DOMAIN it.d
                  /\ \A j \in 1..(i - 1) : TimestampFields[j] \notin DOMAIN it.d]]

HasParseableTimestamp(it) == RecognizedRow(it) /\ to_dt(CarriedTimestamp(it)) # NaT

\* C19: for every list of rows (in every order), the output's timestamps are
\* non-decreasing, every row whose timestamp is absent or unparseable is
\* missing from the output, and every row with a parseable timestamp is in it.
C19_SortedAndFiltered ==
    out.done
    => /\ \A i \in 1..(Len(out.df.index) - 1) : out.df.index[i] <= out.df.index[i + 1]
       /\ \A i \in 1..Len(inp) : HasParseableTimestamp(inp[i]) <=> i \in out.df.kept

\* C20: a balance result that is an error envelope not classified as an auth
\* failure (a timeout, a connection error) leaves the user's _auth_failures and
\* DISABLED_AUTH as they were: only an authenticated success resets the count.
C20_OnlySuccessResets ==
    \A k \in UserKeys :
        (cyc[k].outcome = "ok" /\ cyc[k].kind = "error_envelope")
        => /\ AuthFailuresOf(Persisted(k)) = cyc[k].before
           /\ ~DisabledInFile(k)

\* the user whose auth state a step of run_once persists
PersistedUser == IF pc = "loop" THEN todo \ todo' ELSE {cur}

\* a step of run_once that writes the profiles file
MonitorWrites == pc # "idle" /\ usersFile' # usersFile /\ UNCHANGED <<tpc, lock>>

\* C21: a write of run_once that persists one user's _auth_failures, TESTNET or
\* DISABLED_AUTH leaves every other user's profile as the file holds it, a
\* change a store operation committed during the cycle included.
C21_MonitorKeepsOthers ==
    [][ (MonitorWrites /\ usersFile.state = "ok")
        => \A k \in DOMAIN usersFile.data \ PersistedUser :
               /\ usersFile'.state = "ok"
               /\ k \in DOMAIN usersFile'.data
               /\ usersFile'.data[k] = usersFile.data[k] ]_vars

\* user k's stored profile is the one the file held when thread t read it, before
\* and after the write then in progress: no operation has changed it since
StoredThroughout(t, k) ==
    /\ k \in DOMAIN loaded[t].old /\ loaded[t].old[k] = prev[k]
    /\ k \in DOMAIN loaded[t].new /\ loaded[t].new[k] = prev[k]

\* C22: when a store operation addressed to one user id completes its write,
\* every other user whose stored profile no operation changed since it read the
\* file is still in the file with the same profile, also when that read gave
\* the empty default.
C22_OtherUsersKept ==
    [][ \A t \in Threads :
          (tpc[t] = "writing" /\ tpc'[t] = "idle")
          => \A k \in DOMAIN prev \ {top[t].key} :
                 StoredThroughout(t, k)
                 => /\ usersFile'.state = "ok"
                    /\ k \in DOMAIN usersFile'.data
                    /\ usersFile'.data[k] = prev[k] ]_vars

\* C23: in every state run_once cycles reach from _auth_failures = 0 and
\* DISABLED_AUTH = false, whatever the balance outcomes, the persisted
\* _auth_failures is between 0 and 3, and between cycles a count of 3 or more
\* comes with DISABLED_AUTH = true.
C23_CountWithinThree ==
    \A k \in UserKeys :
        /\ AuthFailuresOf(Persisted(k)) \in 0..3
        /\ (pc = "idle" /\ AuthFailuresOf(Persisted(k)) >= 3) => DisabledInFile(k)

\* a cycle ran after the disabling one and left the count at 3
C23_Witness ==
    /\ pc = "idle"
    /\ cycles >= 4
    /\ AuthFailuresOf(Persisted("1")) = 3
    /\ DisabledInFile("1")
    /\ cyc["1"].outcome = "skip"
    /\ cyc["1"].before = 3

\* C24: for a user starting Healthy whose every balance request is classified
\* as an auth failure, over any number of cycles at most 3 requests go to the
\* configured environment and 1 to the opposite one (4 in total), and none is
\* sent while the user is Disabled.
C24_RequestsBounded ==
    \A k \in UserKeys :
        /\ sent[k].env <= 3
        /\ sent[k].alt <= 1
        /\ sent[k].env + sent[k].alt <= 4
        /\ sent[k].late = 0

\* all four requests sent, the user Disabled, and a later cycle that sent none
C24_Witness ==
    /\ pc = "idle"
    /\ cycles >= 4
    /\ sent["1"] = [env |-> 3, alt |-> 1, late |-> 0]
    /\ DisabledInFile("1")
    /\ cyc["1"].outcome = "skip"
    /\ cyc["1"].calls = 0

=============================================================================
